---- MODULE Spec2Model ----
(***************************************************************************)
(* State-machine model of the parallel exploration scheduler:              *)
(*   phase1/parallel_explorer.py  (ParallelFactorExplorer)                 *)
(*   utils/factor_cache.py        (FactorCache, CacheStats)                *)
(*                                                                         *)
(* One explorer instance with its FactorCache, one caller issuing batch    *)
(* calls one after the other.  A batch call is modelled step by step:      *)
(* build (one step per timeframe), dispatch decision, pool start, one      *)
(* step per resolved future (in any order), one step per sequential task.  *)
(*                                                                         *)
(* Inputs the environment decides: what the DataLoader returns for each    *)
(* timeframe (and whether it raises), how every compute unit behaves in a  *)
(* worker process and in the parent process, and whether the process pool  *)
(* can be started.                                                         *)
(*                                                                         *)
(* A result payload is abstracted to the inputs it was computed from       *)
(* (symbol, timeframe, factor, dataset); the wall-clock "exploration_date" *)
(* default that _format_result adds is not part of the abstraction.        *)
(***************************************************************************)
EXTENDS Integers, Sequences, FiniteSets, TLC

\* ------------------------------------------------------------ bounds
\* Number of batch calls (explore_all / explore_all_async) per behaviour.
MaxCalls == 2
\* Number of compute units that may misbehave (raise somewhere).
MaxFaulty == 1
\* Number of times the loader's data changes between calls.
MaxDataChanges == 1
\* Number of cache calls each thread makes.
MaxOps == 2

\* ------------------------------------------------------ configuration
Symbol == "0700.HK"
Timeframes == <<"1m", "5m">>
FactorNames == <<"A", "B">>

Range(s) == {s[i] : i \in DOMAIN s}
Units == {<<tf, f>> : tf \in Range(Timeframes), f \in Range(FactorNames)}

\* ------------------------------------------------------------ datasets
\* A dataset is None or a table ("frame") as the DataLoader returns it;
\* compute_signature samples only the tail of a table.  "old" stands for
\* the rows before the sampled tail, "tail" for the sampled rows.
NoData == [kind |-> "none", old |-> 0, tail |-> 0]
LoadError == [kind |-> "error", old |-> 0, tail |-> 0]
Frame(o, t) == [kind |-> "frame", old |-> o, tail |-> t]
DataDomain == {Frame(1, 1), Frame(2, 1), Frame(1, 2), NoData}
SourceDomain == DataDomain \cup {LoadError}

\* batch_size values given to explore_all_factors_async (0 stands for None).
BatchSizes == {0, 1, 2}

\* The timeframes whose stored data changes between calls: the coarser one is
\* re-sampled while the instance lives, the finest one is stable.
Volatile == {Timeframes[Len(Timeframes)]}

\* ------------------------------------------------------------ finite maps
EmptyMap == <<>>
MapPut(m, k, v) == [x \in (DOMAIN m) \cup {k} |-> IF x = k THEN v ELSE m[x]]

\* ------------------------------------------------------------ FactorCache
NoSignature == [algo |-> "none", form |-> "none", old |-> 0, tail |-> 0]

\* sha1 over the serialised payload; the digest is modelled injectively.
Sha1(form, o, t) == [algo |-> "sha1", form |-> form, old |-> o, tail |-> t]

\* FactorCache.compute_signature: None for None, sha1 of the JSON of the last
\* rows for a table, sha1 of the pickle of the whole value otherwise.
ComputeSignature(data) ==
  IF data = NoData THEN NoSignature
  ELSE IF data.kind = "frame" THEN Sha1("json", 0, data.tail)
  ELSE Sha1("pickle", data.old, data.tail)

NoKey == <<>>

MakeKey_IgnoreSignature(symbol, timeframe, factor, signature) ==
  IF signature = NoSignature THEN NoKey
  ELSE <<symbol, timeframe, factor, Sha1("json", 0, 0)>>

\* FactorCache._make_key
MakeKey(symbol, timeframe, factor, signature) ==
  IF signature = NoSignature THEN NoKey
  ELSE <<symbol, timeframe, factor, signature>>

ZeroStats == [hits |-> 0, misses |-> 0, stores |-> 0]

\* FactorCache.get: the new statistics and whether the lookup hit.
\* (The entry itself is cache.data[key] when hit.)
CacheGet(cache, symbol, timeframe, factor, signature) ==
  LET key == MakeKey(symbol, timeframe, factor, signature) IN
  IF key = NoKey
    THEN [hit |-> FALSE, key |-> key,
          cache |-> [cache EXCEPT !.stats.misses = @ + 1]]
  ELSE IF key \in DOMAIN cache.data
    THEN [hit |-> TRUE, key |-> key,
          cache |-> [cache EXCEPT !.stats.hits = @ + 1]]
  ELSE [hit |-> FALSE, key |-> key,
        cache |-> [cache EXCEPT !.stats.misses = @ + 1]]

\* FactorCache.set
CacheSet(cache, symbol, timeframe, factor, signature, result) ==
  LET key == MakeKey(symbol, timeframe, factor, signature) IN
  IF key = NoKey THEN cache
  ELSE [data |-> MapPut(cache.data, key, result),
        stats |-> [cache.stats EXCEPT !.stores = @ + 1]]

\* Threads that call one FactorCache concurrently, and what they pass.
Threads == {"t1", "t2"}
Signatures == {NoSignature, Sha1("json", 0, 1)}
IdleThread(left) ==
  [at |-> "idle", key |-> NoKey, field |-> "none", tmp |-> 0, gen |-> 0,
   left |-> left]

\* Explorer objects of one process and the FactorCache objects they can hold.
\* "first" is the explorer whose calls the behaviour follows; `cache` is the
\* content of the FactorCache it holds.
Explorers == {"first", "second"}
NoCache == "none"
SharedCache == "_factor_cache"
NoInstances ==
  [global |-> NoCache,
   arg |-> [e \in Explorers |-> NoCache],
   ref |-> [e \in Explorers |-> NoCache]]

\* get_factor_cache(): the module global, created on first use
GetFactorCache(global) == IF global = NoCache THEN SharedCache ELSE global

\* __init__: self.factor_cache = factor_cache or get_factor_cache()
Constructed(inst, e, factor_cache) ==
  IF factor_cache # NoCache
    THEN [inst EXCEPT !.arg[e] = factor_cache, !.ref[e] = factor_cache]
    ELSE LET got == GetFactorCache(inst.global) IN
         [inst EXCEPT !.global = got,
                      !.arg[e] = NoCache,
                      !.ref[e] = got]

\* ------------------------------------------------------------ data loader
MapDrop(m, k) == [x \in (DOMAIN m) \ {k} |-> m[x]]

NoLoaderStats ==
  [preload_hits |-> 0, preload_misses |-> 0, disk_hits |-> 0, disk_writes |-> 0]

\* A loader: "plain" hands out what the source holds on every load;
\* "optimized" is an OptimizedDataLoader over a data_provider.  preloaded,
\* memory and disk are its three caches, provided counts the provider's calls.
NewLoader(kind, preload, cache_dir) ==
  [kind |-> kind, preload |-> preload, cache_dir |-> cache_dir,
   preloaded |-> EmptyMap, memory |-> EmptyMap, disk |-> EmptyMap,
   stats |-> NoLoaderStats,
   provided |-> [tf \in Range(Timeframes) |-> 0]]

PlainLoader == NewLoader("plain", FALSE, FALSE)

\* OptimizedDataLoader._store_to_disk
StoreToDisk(l, timeframe, data) ==
  IF l.cache_dir
    THEN [l EXCEPT !.disk = MapPut(@, timeframe, data),
                   !.stats.disk_writes = @ + 1]
    ELSE l

\* HistoricalDataLoader.load for a raw timeframe: the in-memory cache, else
\* the provider (None from the provider raises FileNotFoundError).  Tables
\* of the source are sorted and have no empty row, so the cleaning keeps them.
SuperLoad(l, src, timeframe) ==
  IF timeframe \in DOMAIN l.memory
    THEN [loader |-> l, data |-> l.memory[timeframe]]
    ELSE LET called == [l EXCEPT !.provided[timeframe] = @ + 1] IN
         IF src[timeframe].kind # "frame"
           THEN [loader |-> called, data |-> LoadError]
           ELSE [loader |-> [called EXCEPT !.memory =
                               MapPut(@, timeframe, src[timeframe])],
                 data |-> src[timeframe]]

\* OptimizedDataLoader.load
OptimizedLoad(l, src, timeframe) ==
  IF l.preload /\ timeframe \in DOMAIN l.preloaded
    THEN [loader |-> [l EXCEPT !.preloaded = MapDrop(@, timeframe),
                               !.stats.preload_hits = @ + 1],
          data |-> l.preloaded[timeframe]]
    ELSE LET missed == IF l.preload
                         THEN [l EXCEPT !.stats.preload_misses = @ + 1]
                         ELSE l
         IN
         IF missed.cache_dir /\ timeframe \in DOMAIN missed.disk
           THEN [loader |-> [missed EXCEPT !.stats.disk_hits = @ + 1],
                 data |-> missed.disk[timeframe]]
           ELSE LET got == SuperLoad(missed, src, timeframe) IN
                IF got.data = LoadError
                  THEN got
                  ELSE [loader |-> StoreToDisk(got.loader, timeframe, got.data),
                        data |-> got.data]

\* self.data_loader.load(self.symbol, timeframe)
Load(l, src, timeframe) ==
  IF l.kind = "plain"
    THEN [loader |-> l, data |-> src[timeframe]]
    ELSE OptimizedLoad(l, src, timeframe)

\* OptimizedDataLoader._load_for_preload followed by the bookkeeping of
\* preload_timeframes for one timeframe; a failing load is skipped.
PreloadOne(l, src, timeframe) ==
  LET called == [l EXCEPT !.provided[timeframe] = @ + 1] IN
  IF src[timeframe] = LoadError
    THEN called
  ELSE IF src[timeframe] # NoData
    THEN LET kept == StoreToDisk(
                       [called EXCEPT !.memory =
                          MapPut(@, timeframe, src[timeframe])],
                       timeframe, src[timeframe])
         IN [kept EXCEPT !.preloaded = MapPut(@, timeframe, src[timeframe])]
    ELSE LET got == SuperLoad(called, src, timeframe) IN
         IF got.data = LoadError
           THEN got.loader
           ELSE [StoreToDisk(got.loader, timeframe, got.data)
                   EXCEPT !.preloaded = MapPut(@, timeframe, got.data)]

RECURSIVE PreloadAll(_, _, _)
PreloadAll(l, src, i) ==
  IF i > Len(Timeframes) THEN l
  ELSE PreloadAll(PreloadOne(l, src, Timeframes[i]), src, i + 1)

\* ------------------------------------------------------------ compute
\* key = f"{timeframe}_{factor.name}"
ResultKey(timeframe, factor) == timeframe \o "_" \o factor

\* _format_result over engine.backtest_factor(data, factor.generate_signals(..))
\* for a deterministic compute unit.
Compute(timeframe, factor, data) ==
  [symbol |-> Symbol, timeframe |-> timeframe, factor |-> factor, src |-> data]

\* How a compute unit (factor.generate_signals + engine.backtest_factor)
\* behaves; a unit is deterministic, its behaviour is an input:
\*   "ok"     returns wherever it runs;
\*   "worker" raises inside a worker process only (the tests' DummyFactor
\*            with fail_in_process), returns in the parent;
\*   "os"     raises, wherever it runs, an exception of the classes the
\*            dispatcher also catches around the pool (NotImplementedError,
\*            PermissionError, OSError);
\*   "err"    raises, wherever it runs, any other exception.
Behaviours == {"ok", "worker", "os", "err"}

\* ------------------------------------------------------------ state
VARIABLES
  source,        \* DataLoader: what load(symbol, timeframe) returns now
  behaviour,     \* how each compute unit behaves in a worker / in the parent
  cache,         \* self.factor_cache: [data, stats]
  poolSupported, \* self._process_pool_supported
  progress,      \* [logged: self._progress_logged, log: values sent to the logger]
  pc,            \* where the caller is: idle, build, create, pool, seq, returned, raised
  idx,           \* loop position: timeframe index (build), task index (seq)
  tasks,         \* _build_tasks: the pending _Task list
  dataset,       \* _build_tasks: timeframe -> loaded data
  results,       \* the result map under construction / returned
  completed,     \* local variable completed
  futures,       \* future_map: task indices submitted and not yet resolved
  exc,           \* the exception a raising call propagated ("none" otherwise)
  origin,        \* history: result key -> how it was resolved in this call
  workerRaised,  \* history: result keys whose future raised in this call
  submitted,     \* history: result keys submitted to a pool in this call
  localRuns,     \* history: result key -> _compute_locally invocations in this call
  callStart,     \* history: cache, source and mode when the call began
  prev,          \* history: outcome of the previous batch call
  calls,         \* number of batch calls finished
  changes,       \* number of data changes so far
  oneOut,        \* history: the last explore_single_factor call since the last
                 \* batch call: was a dataset supplied, was the loader called
  loaderCalls,   \* history: load / compute_signature invocations of this call
  threads,       \* threads calling the cache directly: position and locals
  cacheLog,      \* history: get / set calls made by them, stats objects replaced
  instances,     \* the module global _factor_cache and each explorer's cache
  loader,        \* self.data_loader: its configuration, caches and counters
  memory,        \* self.memory_limit_mb; history: samples and warnings of this call
  parked         \* the locals of a second batch call running in another thread

vars == <<source, behaviour, cache, poolSupported, progress, pc, idx,
          tasks, dataset, results, completed, futures, exc, origin, workerRaised,
          submitted, localRuns, callStart, prev, calls, changes, oneOut,
          loaderCalls, threads, cacheLog, instances, loader, memory, parked>>

auxVars == <<threads, cacheLog, instances, parked>>
envVars == <<source, behaviour, changes>>
frameVars == <<idx, tasks, dataset, results, completed, futures>>
histVars == <<origin, workerRaised, submitted, localRuns>>

\* total = len(self.timeframes) * len(self.factors)
Total == Len(Timeframes) * Len(FactorNames)

AllKeys == {ResultKey(u[1], u[2]) : u \in Units}

NoOutcome == [status |-> "none", results |-> EmptyMap, source |-> EmptyMap]
NoOne == [supplied |-> FALSE, loaded |-> FALSE]
NoCalls == [load |-> [tf \in Range(Timeframes) |-> 0],
            sign |-> [tf \in Range(Timeframes) |-> 0]]
NoStart == [cache |-> [data |-> EmptyMap, stats |-> ZeroStats],
            source |-> EmptyMap, pool |-> TRUE]

\* The locals of a call of explore_all_factors that has not started.
NoFrame ==
  [pc |-> "idle", idx |-> 0, tasks |-> <<>>, dataset |-> EmptyMap,
   results |-> EmptyMap, completed |-> 0, futures |-> {}, exc |-> "none",
   origin |-> EmptyMap, workerRaised |-> {}, submitted |-> {},
   localRuns |-> EmptyMap, callStart |-> NoStart, loaderCalls |-> NoCalls]

\* self.memory_limit_mb (0 stands for None) with nothing sampled yet
NoSamples(memory_limit_mb) ==
  [limit |-> memory_limit_mb, samples |-> 0, warnings |-> 0]

\* What _current_memory_mb() can return where it is called: a value below
\* or above the limit (it is not called without a limit).
Usages(limit) == IF limit = 0 THEN {0} ELSE {0, limit + 1}

\* ParallelFactorExplorer._check_memory
CheckMemory(m, usage) ==
  IF m.limit = 0 THEN m
  ELSE [m EXCEPT !.samples = @ + 1,
                 !.warnings = IF usage > m.limit THEN @ + 1 ELSE @]

Start(inst, ldr, memory_limit_mb) ==
  /\ instances = inst
  /\ loader = ldr
  /\ memory = NoSamples(memory_limit_mb)
  /\ parked = NoFrame
  /\ source = [tf \in Range(Timeframes) |-> Frame(1, 1)]
  /\ behaviour \in {b \in [Units -> Behaviours] :
                      Cardinality({u \in Units : b[u] # "ok"}) <= MaxFaulty}
  /\ cache = [data |-> EmptyMap, stats |-> ZeroStats]
  /\ poolSupported = TRUE
  /\ progress = [logged |-> 0, log |-> <<>>]
  /\ pc = "idle"
  /\ idx = 0
  /\ tasks = <<>>
  /\ dataset = EmptyMap
  /\ results = EmptyMap
  /\ completed = 0
  /\ futures = {}
  /\ exc = "none"
  /\ origin = EmptyMap
  /\ workerRaised = {}
  /\ submitted = {}
  /\ localRuns = EmptyMap
  /\ callStart = NoStart
  /\ prev = NoOutcome
  /\ calls = 0
  /\ changes = 0
  /\ oneOut = NoOne
  /\ loaderCalls = NoCalls
  /\ threads = [t \in Threads |-> IdleThread(MaxOps)]
  /\ cacheLog = [gets |-> 0, sets |-> 0, gen |-> 0]

\* The explorer is built with a FactorCache() of its own passed in.
Init == Start(Constructed(NoInstances, "first", "given_first"), PlainLoader, 0)


\* ------------------------------------------------------------ helpers
\* ParallelFactorExplorer._log_progress
LogProgress(p, done, total) ==
  IF total <= 0 THEN p
  ELSE IF done = p.logged THEN p
  ELSE [logged |-> done, log |-> Append(p.log, done)]

Task_NoSignature(timeframe, factor, data, signature) ==
  [timeframe |-> timeframe, factor |-> factor, data |-> data,
   signature |-> NoSignature]

\* _Task(timeframe, factor, data, signature)
Task(timeframe, factor, data, signature) ==
  [timeframe |-> timeframe, factor |-> factor, data |-> data,
   signature |-> signature]

TaskKey(task) == ResultKey(task.timeframe, task.factor)

RECURSIVE BuildFactors_EnqueueHits(_, _, _, _, _)
BuildFactors_EnqueueHits(acc, timeframe, data, signature, j) ==
  IF j > Len(FactorNames) THEN acc
  ELSE
    LET factor == FactorNames[j]
        key == ResultKey(timeframe, factor)
        got == CacheGet(acc.cache, Symbol, timeframe, factor, signature)
        queued == [acc EXCEPT
                     !.cache = got.cache,
                     !.tasks = Append(@, Task(timeframe, factor, data, signature))]
        step ==
          IF got.hit
            THEN [queued EXCEPT
                    !.results = MapPut(@, key, acc.cache.data[got.key]),
                    !.completed = @ + 1,
                    !.progress = LogProgress(@, acc.completed + 1, Total),
                    !.origin = MapPut(@, key, "cache")]
            ELSE queued
    IN BuildFactors_EnqueueHits(step, timeframe, data, signature, j + 1)

\* The inner loop of _build_tasks over self.factors for one timeframe.
RECURSIVE BuildFactors(_, _, _, _, _)
BuildFactors(acc, timeframe, data, signature, j) ==
  IF j > Len(FactorNames) THEN acc
  ELSE
    LET factor == FactorNames[j]
        key == ResultKey(timeframe, factor)
        got == CacheGet(acc.cache, Symbol, timeframe, factor, signature)
        step ==
          IF got.hit
            THEN [acc EXCEPT
                    !.cache = got.cache,
                    !.results = MapPut(@, key, acc.cache.data[got.key]),
                    !.completed = @ + 1,
                    !.progress = LogProgress(@, acc.completed + 1, Total),
                    !.origin = MapPut(@, key, "cache")]
            ELSE [acc EXCEPT
                    !.cache = got.cache,
                    !.tasks = Append(@, Task(timeframe, factor, data, signature))]
    IN BuildFactors(step, timeframe, data, signature, j + 1)

StoreResult_Never(c, task, result) == c

StoreResult_LookupFirst(c, task, result) ==
  CacheSet(CacheGet(c, Symbol, task.timeframe, task.factor, task.signature).cache,
           Symbol, task.timeframe, task.factor, task.signature, result)

\* if task.signature is not None: self.factor_cache.set(...)
StoreResult(c, task, result) ==
  IF task.signature # NoSignature
    THEN CacheSet(c, Symbol, task.timeframe, task.factor, task.signature, result)
    ELSE c

\* results[key] = result; if task.signature is not None: factor_cache.set(...)
MergeWrite(task, result, how) ==
  /\ results' = MapPut(results, TaskKey(task), result)
  /\ cache' = StoreResult(cache, task, result)
  /\ origin' = MapPut(origin, TaskKey(task), how)

\* completed += 1; self._log_progress(completed, total)
MergeAdvance ==
  /\ completed' = completed + 1
  /\ progress' = LogProgress(progress, completed + 1, Total)

\* results[key] = result; cache write-through; completed += 1; _log_progress
Merge(task, result, how) ==
  /\ MergeWrite(task, result, how)
  /\ MergeAdvance

\* The tail of a loop iteration taken as one step (whole) or stopped between
\* the cache write and the progress advancement, which then follows from
\* the position `between`.
MergeStep(task, result, how, whole, between) ==
  IF whole
    THEN Merge(task, result, how) /\ UNCHANGED pc
    ELSE /\ MergeWrite(task, result, how)
         /\ pc' = between
         /\ UNCHANGED <<completed, progress>>

\* ParallelFactorExplorer._compute_locally, when nothing raises
ComputeLocally(timeframe, factor, data) == Compute(timeframe, factor, data)

FallbackResult_FirstTimeframe(task, ds) ==
  ComputeLocally(task.timeframe, task.factor, ds[Timeframes[1]])

\* except Exception: result = self._compute_locally(task.timeframe,
\*                                task.factor, dataset[task.timeframe])
FallbackResult(task, ds) ==
  ComputeLocally(task.timeframe, task.factor, ds[task.timeframe])

\* _execute_sequential: results[key] = result; cache write; completed += 1; log
SeqMerge(task, result, whole) ==
  MergeStep(task, result, "sequential", whole, "seq_advance")

\* What the future of a task delivers, and what _compute_locally does.
WorkerOutcome(task) ==
  IF behaviour[<<task.timeframe, task.factor>>] = "ok" THEN "ok" ELSE "raise"
LocalOutcome(task) ==
  IF behaviour[<<task.timeframe, task.factor>>] \in {"ok", "worker"} THEN "ok"
  ELSE behaviour[<<task.timeframe, task.factor>>]

CountRun(runs, key) ==
  MapPut(runs, key, IF key \in DOMAIN runs THEN runs[key] + 1 ELSE 1)

UsePool_Always(supported) == TRUE

\* if not self._process_pool_supported: return self._execute_sequential(...)
UsePool(supported) == supported

LoadRaises_Never(data) == FALSE

\* data = self.data_loader.load(self.symbol, timeframe): an exception of the
\* loader is not caught anywhere in the explorer
LoadRaises(data) == data = LoadError

LoadsWhen_Always(given) == TRUE

\* explore_single_factor: if data is None: data = self.data_loader.load(...)
LoadsWhen(given) == given = NoData

CompletedAfterBuild_Zero(res) == 0

\* completed = len(results)
CompletedAfterBuild(res) == Cardinality(DOMAIN res)

\* ------------------------------------------------------------ actions
\* explore_all_factors: entry (self._progress_logged = 0; _build_tasks())
Begin(startCache) ==
  /\ pc = "idle"
  /\ calls < MaxCalls
  /\ pc' = "build"
  /\ progress' = [logged |-> 0, log |-> <<>>]
  /\ idx' = 1
  /\ tasks' = <<>>
  /\ dataset' = EmptyMap
  /\ results' = EmptyMap
  /\ completed' = 0
  /\ futures' = {}
  /\ exc' = "none"
  /\ origin' = EmptyMap
  /\ workerRaised' = {}
  /\ submitted' = {}
  /\ localRuns' = EmptyMap
  /\ callStart' = [cache |-> cache, source |-> source, pool |-> poolSupported]
  /\ oneOut' = NoOne
  /\ loaderCalls' = NoCalls
  /\ cache' = startCache
  /\ memory' = NoSamples(memory.limit)
  /\ UNCHANGED <<envVars, auxVars, loader, poolSupported, prev, calls>>

\* explore_all_factors(): the call works on self.factor_cache as it is
BeginCall == Begin(cache)

BeginAsync_FreshCache(batch_size) == Begin([data |-> EmptyMap, stats |-> ZeroStats])

\* explore_all_factors_async(batch_size):
\*   loop.run_in_executor(None, self.explore_all_factors); batch_size is not used
BeginAsync(batch_size) == Begin(cache)

\* _build_tasks: one iteration of the loop over self.timeframes
BuildTimeframe ==
  /\ pc = "build"
  /\ idx <= Len(Timeframes)
  /\ LET timeframe == Timeframes[idx]
         got == Load(loader, source, timeframe)
     IN
     /\ loader' = got.loader
     /\ IF LoadRaises(got.data)
          THEN /\ pc' = "raised"
               /\ exc' = "load"
               /\ loaderCalls' = [loaderCalls EXCEPT !.load[timeframe] = @ + 1]
               /\ UNCHANGED <<cache, progress, frameVars, origin>>
          ELSE LET data == got.data
                   signature == ComputeSignature(data)
                   acc == BuildFactors(
                            [cache |-> cache, results |-> results, tasks |-> tasks,
                             completed |-> completed, progress |-> progress,
                             origin |-> origin],
                            timeframe, data, signature, 1)
               IN /\ dataset' = MapPut(dataset, timeframe, data)
                  /\ cache' = acc.cache
                  /\ results' = acc.results
                  /\ tasks' = acc.tasks
                  /\ completed' = acc.completed
                  /\ progress' = acc.progress
                  /\ origin' = acc.origin
                  /\ idx' = idx + 1
                  /\ loaderCalls' = [loaderCalls EXCEPT !.load[timeframe] = @ + 1,
                                                        !.sign[timeframe] = @ + 1]
                  /\ UNCHANGED <<pc, exc, futures>>
  /\ UNCHANGED <<envVars, auxVars, memory, poolSupported, workerRaised, submitted,
                 localRuns, callStart, prev, calls, oneOut>>

\* explore_all_factors after _build_tasks: choose the execution path
BuildDone ==
  /\ pc = "build"
  /\ idx > Len(Timeframes)
  /\ completed' = CompletedAfterBuild(results)
  /\ IF tasks = <<>> THEN pc' = "returned" /\ idx' = idx
     ELSE IF ~UsePool(poolSupported) THEN pc' = "seq" /\ idx' = 1
     ELSE pc' = "create" /\ idx' = idx
  /\ UNCHANGED <<envVars, auxVars, memory, loader, cache, poolSupported, progress, tasks,
                 dataset, results, futures, exc, histVars, callStart, prev,
                 calls, oneOut, loaderCalls>>

FallBackToSequential_NoWait ==
  /\ poolSupported' = FALSE
  /\ pc' = "seq"
  /\ idx' = 1
  /\ UNCHANGED futures

\* except (NotImplementedError, PermissionError, OSError): downgrade and
\* re-execute every task sequentially with the current results / completed.
\* The exception has left the `with ProcessPoolExecutor` block, whose exit
\* waits for every submitted task.
FallBackToSequential ==
  /\ poolSupported' = FALSE
  /\ pc' = "seq"
  /\ idx' = 1
  /\ futures' = {}

\* with ProcessPoolExecutor(...) as executor: submit one future per task
PoolStart ==
  /\ pc = "create"
  /\ \/ /\ futures' = DOMAIN tasks
        /\ submitted' = {TaskKey(tasks[i]) : i \in DOMAIN tasks}
        /\ pc' = "pool"
        /\ UNCHANGED <<poolSupported, idx>>
     \/ \E n \in {0, Len(tasks) - 1} :
          /\ submitted' = {TaskKey(tasks[i]) : i \in 1 .. n}
          /\ FallBackToSequential
  /\ UNCHANGED <<envVars, auxVars, memory, loader, cache, progress, tasks, dataset, results,
                 completed, exc, origin, workerRaised, localRuns, callStart,
                 prev, calls, oneOut, loaderCalls>>

\* for future in as_completed(future_map): one iteration, any pending future
ResolveBy(i, whole) ==
  /\ pc = "pool"
  /\ i \in futures
  /\ \E usage \in Usages(memory.limit) :
     LET task == tasks[i]
         sampled == IF whole THEN CheckMemory(memory, usage) ELSE memory
     IN
       IF WorkerOutcome(task) = "ok"
         THEN /\ MergeStep(task, Compute(task.timeframe, task.factor, task.data),
                           "worker", whole, "pool_advance")
              /\ futures' = futures \ {i}
              /\ memory' = sampled
              /\ UNCHANGED <<exc, poolSupported, idx, workerRaised, localRuns>>
         ELSE /\ workerRaised' = workerRaised \cup {TaskKey(task)}
              /\ localRuns' = CountRun(localRuns, TaskKey(task))
              /\ CASE LocalOutcome(task) = "ok" ->
                        /\ MergeStep(task, FallbackResult(task, dataset),
                                     "fallback", whole, "pool_advance")
                        /\ futures' = futures \ {i}
                        /\ memory' = sampled
                        /\ UNCHANGED <<exc, poolSupported, idx>>
                   [] LocalOutcome(task) = "os" ->
                        /\ FallBackToSequential
                        /\ UNCHANGED <<exc, results, cache, completed, progress,
                                       origin, memory>>
                   [] OTHER ->
                        /\ pc' = "raised"
                        /\ exc' = "unit"
                        /\ futures' = {}
                        /\ UNCHANGED <<poolSupported, idx, results, cache,
                                       completed, progress, origin, memory>>
  /\ UNCHANGED <<envVars, auxVars, loader, tasks, dataset, submitted, callStart, prev, calls,
                 oneOut, loaderCalls>>

Resolve_Throttled(i) == memory.warnings = 0 /\ ResolveBy(i, TRUE)

Resolve(i) == ResolveBy(i, TRUE)

\* every future resolved: leave the with block and return results
PoolDone ==
  /\ pc = "pool"
  /\ futures = {}
  /\ pc' = "returned"
  /\ UNCHANGED <<envVars, auxVars, memory, loader, cache, poolSupported, progress, frameVars,
                 exc, histVars, callStart, prev, calls, oneOut, loaderCalls>>

\* _execute_sequential: one iteration of the loop over tasks
SeqStepBy(whole) ==
  /\ pc = "seq"
  /\ idx <= Len(tasks)
  /\ LET task == tasks[idx] IN
       /\ localRuns' = CountRun(localRuns, TaskKey(task))
       /\ IF LocalOutcome(task) = "ok"
            THEN SeqMerge(task, ComputeLocally(task.timeframe, task.factor,
                                               dataset[task.timeframe]), whole)
            ELSE UNCHANGED <<results, cache, completed, progress, origin, pc>>
  /\ idx' = idx + 1
  /\ UNCHANGED <<envVars, auxVars, memory, loader, poolSupported, tasks, dataset, futures, exc,
                 workerRaised, submitted, callStart, prev, calls, oneOut,
                 loaderCalls>>

SeqStep == SeqStepBy(TRUE)

\* _execute_sequential: return results
SeqDone ==
  /\ pc = "seq"
  /\ idx > Len(tasks)
  /\ pc' = "returned"
  /\ UNCHANGED <<envVars, auxVars, memory, loader, cache, poolSupported, progress, frameVars,
                 exc, histVars, callStart, prev, calls, oneOut, loaderCalls>>

\* The caller receives the map (or the exception); the call's locals die.
Finish ==
  /\ pc \in {"returned", "raised"}
  /\ prev' = [status |-> pc,
              results |-> IF pc = "returned" THEN results ELSE EmptyMap,
              source |-> callStart.source]
  /\ calls' = calls + 1
  /\ pc' = "idle"
  /\ idx' = 0
  /\ tasks' = <<>>
  /\ dataset' = EmptyMap
  /\ results' = EmptyMap
  /\ completed' = 0
  /\ futures' = {}
  /\ exc' = "none"
  /\ origin' = EmptyMap
  /\ workerRaised' = {}
  /\ submitted' = {}
  /\ localRuns' = EmptyMap
  /\ callStart' = NoStart
  /\ loaderCalls' = NoCalls
  /\ memory' = NoSamples(memory.limit)
  /\ UNCHANGED <<envVars, auxVars, loader, cache, poolSupported, progress, oneOut>>

\* The data behind the loader changes between calls.
DataChange(timeframe, value) ==
  /\ pc = "idle"
  /\ changes < MaxDataChanges
  /\ value # source[timeframe]
  /\ source' = [source EXCEPT ![timeframe] = value]
  /\ changes' = changes + 1
  /\ oneOut' = NoOne
  /\ UNCHANGED <<behaviour, auxVars, memory, loader, cache, poolSupported, progress, pc,
                 frameVars, exc, histVars, callStart, prev, calls, loaderCalls>>

\* explore_single_factor(timeframe, factor, data=None):
\*   if data is None: data = self.data_loader.load(...)
\*   return self._compute_locally(timeframe, factor, data)
ExploreOne(timeframe, factor, given) ==
  /\ pc = "idle"
  /\ oneOut' = [supplied |-> given # NoData, loaded |-> LoadsWhen(given)]
  /\ loader' = IF LoadsWhen(given)
                 THEN Load(loader, source, timeframe).loader
                 ELSE loader
  /\ UNCHANGED <<envVars, auxVars, memory, cache, poolSupported, progress, pc, frameVars, exc,
                 histVars, callStart, prev, calls, loaderCalls>>

Next ==
  \/ BeginCall
  \/ \E batch_size \in BatchSizes : BeginAsync(batch_size)
  \/ BuildTimeframe
  \/ BuildDone
  \/ PoolStart
  \/ \E i \in DOMAIN tasks : Resolve(i)
  \/ PoolDone
  \/ SeqStep
  \/ SeqDone
  \/ Finish
  \/ \E timeframe \in Volatile, value \in SourceDomain :
       DataChange(timeframe, value)
  \/ \E timeframe \in Range(Timeframes), factor \in {FactorNames[1]},
        given \in {NoData, Frame(1, 2)} : ExploreOne(timeframe, factor, given)

Spec == Init /\ [][Next]_vars

\* ------------------------------------------------ FactorCache under threads
\* The explorer at rest, its cache called by several threads.  A call is a
\* sequence of steps; `with self._lock:` blocks are single steps, and
\* `self.stats.<field> += 1`, which is outside the lock, is a read of the
\* field followed by a write to the stats object that was read.
explorerVars == <<source, behaviour, poolSupported, progress, pc, idx, tasks,
                  dataset, results, completed, futures, exc, origin,
                  workerRaised, submitted, localRuns, callStart, prev, calls,
                  changes, oneOut, loaderCalls, loader, memory, parked>>

CacheInit == Init /\ behaviour = [u \in Units |-> "ok"]

Payload == Compute(Timeframes[1], FactorNames[1], Frame(1, 1))

\* get(): key = self._make_key(...); if key is None: self.stats.misses += 1
GetCall(t, signature) ==
  /\ threads[t].at = "idle"
  /\ threads[t].left > 0
  /\ LET key == MakeKey(Symbol, Timeframes[1], FactorNames[1], signature) IN
       threads' = [threads EXCEPT ![t] =
                     IF key = NoKey
                       THEN [@ EXCEPT !.at = "read", !.field = "misses"]
                       ELSE [@ EXCEPT !.at = "lookup", !.key = key]]
  /\ cacheLog' = [cacheLog EXCEPT !.gets = @ + 1]
  /\ UNCHANGED <<cache, instances, explorerVars>>

\* get(): with self._lock: cached = self._data.get(key)
GetLookup(t) ==
  /\ threads[t].at = "lookup"
  /\ threads' = [threads EXCEPT ![t] =
                   [@ EXCEPT !.at = "read",
                             !.field = IF threads[t].key \in DOMAIN cache.data
                                         THEN "hits" ELSE "misses"]]
  /\ UNCHANGED <<cache, cacheLog, instances, explorerVars>>

\* set(): key = self._make_key(...); if key is None: return
SetCall(t, signature) ==
  /\ threads[t].at = "idle"
  /\ threads[t].left > 0
  /\ LET key == MakeKey(Symbol, Timeframes[1], FactorNames[1], signature) IN
       IF key = NoKey
         THEN /\ threads' = [threads EXCEPT ![t].left = @ - 1]
              /\ UNCHANGED cacheLog
         ELSE /\ threads' = [threads EXCEPT ![t] =
                               [@ EXCEPT !.at = "store", !.key = key]]
              /\ cacheLog' = [cacheLog EXCEPT !.sets = @ + 1]
  /\ UNCHANGED <<cache, instances, explorerVars>>

\* set(): with self._lock: self._data[key] = result
SetStore(t) ==
  /\ threads[t].at = "store"
  /\ cache' = [cache EXCEPT !.data = MapPut(@, threads[t].key, Payload)]
  /\ threads' = [threads EXCEPT ![t] = [@ EXCEPT !.at = "read", !.field = "stores"]]
  /\ UNCHANGED <<cacheLog, instances, explorerVars>>

\* self.stats.<field> += 1, first half: load self.stats and its field
CounterRead(t) ==
  /\ threads[t].at = "read"
  /\ threads' = [threads EXCEPT ![t] =
                   [@ EXCEPT !.at = "write",
                             !.tmp = cache.stats[threads[t].field],
                             !.gen = cacheLog.gen]]
  /\ UNCHANGED <<cache, cacheLog, instances, explorerVars>>

\* self.stats.<field> += 1, second half: store into the stats object loaded
\* (which clear() may have replaced meanwhile), then return
CounterWrite(t) ==
  /\ threads[t].at = "write"
  /\ cache' = IF threads[t].gen = cacheLog.gen
                THEN [cache EXCEPT !.stats[threads[t].field] = threads[t].tmp + 1]
                ELSE cache
  /\ threads' = [threads EXCEPT ![t] = IdleThread(threads[t].left - 1)]
  /\ UNCHANGED <<cacheLog, instances, explorerVars>>

\* clear(): with self._lock: self._data.clear()
ClearCall(t) ==
  /\ threads[t].at = "idle"
  /\ threads[t].left > 0
  /\ cache' = [cache EXCEPT !.data = EmptyMap]
  /\ threads' = [threads EXCEPT ![t].at = "reset"]
  /\ UNCHANGED <<cacheLog, instances, explorerVars>>

\* clear(): self.stats = CacheStats()
ClearReset(t) ==
  /\ threads[t].at = "reset"
  /\ cache' = [cache EXCEPT !.stats = ZeroStats]
  /\ cacheLog' = [cacheLog EXCEPT !.gen = @ + 1]
  /\ threads' = [threads EXCEPT ![t] = IdleThread(threads[t].left - 1)]
  /\ UNCHANGED <<instances, explorerVars>>

CacheNext ==
  \/ \E t \in Threads, signature \in Signatures : GetCall(t, signature)
  \/ \E t \in Threads : GetLookup(t)
  \/ \E t \in Threads, signature \in Signatures : SetCall(t, signature)
  \/ \E t \in Threads : SetStore(t)
  \/ \E t \in Threads : CounterRead(t)
  \/ \E t \in Threads : CounterWrite(t)
  \/ \E t \in Threads : ClearCall(t)
  \/ \E t \in Threads : ClearReset(t)

CacheSpec == CacheInit /\ [][CacheNext]_vars

\* ------------------------------------------------ several explorers
\* A second explorer is constructed in the same process, with no cache, with
\* a cache of its own, or with the one the first explorer was given.
Construct(e, factor_cache) ==
  /\ instances.ref[e] = NoCache
  /\ instances' = Constructed(instances, e, factor_cache)
  /\ UNCHANGED <<cache, threads, cacheLog, explorerVars>>

InstanceInit ==
  \E factor_cache \in {NoCache, "given_first"} :
    Start(Constructed(NoInstances, "first", factor_cache), PlainLoader, 0)

InstanceNext ==
  \/ Next
  \/ \E factor_cache \in {NoCache, "given_first", "given_second"} :
       Construct("second", factor_cache)

InstanceSpec == InstanceInit /\ [][InstanceNext]_vars

\* explorer.factor_cache as seen through explorer e
CacheOf(e) ==
  IF instances.ref[e] = instances.ref["first"]
    THEN cache
    ELSE [data |-> EmptyMap, stats |-> ZeroStats]

\* ------------------------------------------------ OptimizedDataLoader
\* The explorer over an OptimizedDataLoader.  Other code of the process may
\* call preload_timeframes between calls, and cached datasets expire.
PreloadTimeframes ==
  /\ pc = "idle"
  /\ loader.preload
  /\ loader.preloaded = EmptyMap
  /\ loader' = PreloadAll(loader, source, 1)
  /\ UNCHANGED <<envVars, auxVars, memory, cache, poolSupported, progress, pc, frameVars,
                 exc, histVars, callStart, prev, calls, oneOut, loaderCalls>>

\* cache_ttl elapses for an entry of the in-memory cache
ExpireMemory(timeframe) ==
  /\ pc = "idle"
  /\ timeframe \in DOMAIN loader.memory
  /\ loader' = [loader EXCEPT !.memory = MapDrop(@, timeframe)]
  /\ UNCHANGED <<envVars, auxVars, memory, cache, poolSupported, progress, pc, frameVars,
                 exc, histVars, callStart, prev, calls, oneOut, loaderCalls>>

\* cache_ttl elapses for a file of the disk cache (_load_from_disk unlinks it)
ExpireDisk(timeframe) ==
  /\ pc = "idle"
  /\ timeframe \in DOMAIN loader.disk
  /\ loader' = [loader EXCEPT !.disk = MapDrop(@, timeframe)]
  /\ UNCHANGED <<envVars, auxVars, memory, cache, poolSupported, progress, pc, frameVars,
                 exc, histVars, callStart, prev, calls, oneOut, loaderCalls>>

\* Every unit computes; the loader is new.
LoaderInit ==
  \E preload \in BOOLEAN, cache_dir \in BOOLEAN :
    /\ Start(Constructed(NoInstances, "first", "given_first"),
             NewLoader("optimized", preload, cache_dir), 0)
    /\ behaviour = [u \in Units |-> "ok"]

LoaderNext ==
  \/ BeginCall
  \/ BuildTimeframe
  \/ BuildDone
  \/ PoolStart
  \/ \E i \in DOMAIN tasks : Resolve(i)
  \/ PoolDone
  \/ SeqStep
  \/ SeqDone
  \/ Finish
  \/ \E timeframe \in Volatile, value \in SourceDomain :
       DataChange(timeframe, value)
  \/ PreloadTimeframes
  \/ \E timeframe \in Range(Timeframes) : ExpireMemory(timeframe)
  \/ \E timeframe \in Range(Timeframes) : ExpireDisk(timeframe)

LoaderSpec == LoaderInit /\ [][LoaderNext]_vars

\* ------------------------------------------------ one statement at a time
\* The same calls with the tail of every loop iteration taken in two steps:
\* the result is merged and written to the cache, then the progress advances.
PoolAdvance ==
  /\ pc = "pool_advance"
  /\ MergeAdvance
  /\ \E usage \in Usages(memory.limit) : memory' = CheckMemory(memory, usage)
  /\ pc' = "pool"
  /\ UNCHANGED <<envVars, auxVars, loader, cache, poolSupported, idx, tasks,
                 dataset, results, futures, exc, histVars, callStart, prev,
                 calls, oneOut, loaderCalls>>

SeqAdvance ==
  /\ pc = "seq_advance"
  /\ MergeAdvance
  /\ pc' = "seq"
  /\ UNCHANGED <<envVars, auxVars, memory, loader, cache, poolSupported, idx, tasks,
                 dataset, results, futures, exc, histVars, callStart, prev,
                 calls, oneOut, loaderCalls>>

OrderNext ==
  \/ BeginCall
  \/ BuildTimeframe
  \/ BuildDone
  \/ PoolStart
  \/ \E i \in DOMAIN tasks : ResolveBy(i, FALSE)
  \/ PoolAdvance
  \/ PoolDone
  \/ SeqStepBy(FALSE)
  \/ SeqAdvance
  \/ SeqDone
  \/ Finish
  \/ \E timeframe \in Volatile, value \in SourceDomain :
       DataChange(timeframe, value)

OrderSpec == Init /\ [][OrderNext]_vars

\* ------------------------------------------------ a call that keeps running
\* The calling thread goes on taking its steps and every submitted task
\* resolves in the end.
LiveNext ==
  \/ BeginCall
  \/ BuildTimeframe
  \/ BuildDone
  \/ PoolStart
  \/ \E i \in DOMAIN tasks : Resolve(i)
  \/ PoolDone
  \/ SeqStep
  \/ SeqDone
  \/ Finish

LiveSpec ==
  /\ Init
  /\ [][LiveNext]_vars
  /\ WF_vars(BuildTimeframe)
  /\ WF_vars(BuildDone)
  /\ WF_vars(PoolStart)
  /\ \A i \in 1 .. Total : WF_vars(Resolve(i))
  /\ WF_vars(PoolDone)
  /\ WF_vars(SeqStep)
  /\ WF_vars(SeqDone)

\* An event-loop caller: every batch call goes through the async facade
\* (the data behind the loader does not change).
AsyncNext ==
  \/ \E batch_size \in BatchSizes : BeginAsync(batch_size)
  \/ BuildTimeframe
  \/ BuildDone
  \/ PoolStart
  \/ \E i \in DOMAIN tasks : Resolve(i)
  \/ PoolDone
  \/ SeqStep
  \/ SeqDone
  \/ Finish

AsyncSpec == Init /\ [][AsyncNext]_vars


\* ------------------------------------------------------------ vocabulary
UnitOfKey(k) == CHOOSE u \in Units : ResultKey(u[1], u[2]) = k

\* Every timeframe loads and has a fingerprint.
FingerprintsPresent(src) ==
  \A tf \in Range(Timeframes) :
    src[tf] # LoadError /\ ComputeSignature(src[tf]) # NoSignature

\* The entry a unit has in a cache store for the dataset ds, if any.
EntryKey(u, ds) == <<Symbol, u[1], u[2], ComputeSignature(ds[u[1]])>>
HasEntry(store, u, ds) ==
  /\ ComputeSignature(ds[u[1]]) # NoSignature
  /\ EntryKey(u, ds) \in DOMAIN store

\* What a unit's payload is in a run where nothing fails: the entry cached
\* when the call began, else a direct computation from the loaded dataset.
ExpectedPayload(store, ds, u) ==
  IF HasEntry(store, u, ds) THEN store[EntryKey(u, ds)]
  ELSE Compute(u[1], u[2], ds[u[1]])

ExpectedResults ==
  [k \in AllKeys |-> ExpectedPayload(callStart.cache.data, dataset, UnitOfKey(k))]

PostBuild == pc \in {"create", "pool", "seq", "returned"}

\* ------------------------------------------------------------ claims

\* C1: whenever explore_all returns, the map has exactly N x M keys, one per
\* (timeframe, indicator) pair, whatever the mix of cache hits, worker
\* results, local fallbacks and sequential execution; no unit is omitted.
C1_Complete ==
  pc = "returned" =>
    /\ DOMAIN results = AllKeys
    /\ Cardinality(DOMAIN results) = Total

\* C2: an exception raised while computing a unit never makes the batch call
\* raise; only a dataset load failure does.
C2_OnlyLoadFailureRaises ==
  pc = "raised" => exc = "load"

\* C3: if exactly one unit raises inside a worker and succeeds in the parent,
\* the returned map holds that unit's key with the value of a direct
\* synchronous computation in the parent, and every other unit's key and
\* value are those of a run where nothing failed.
C3_SingleWorkerFailureRecovered ==
  (/\ pc = "returned"
   /\ Cardinality(workerRaised) = 1
   /\ \A k \in workerRaised : behaviour[UnitOfKey(k)] = "worker")
  => /\ results = ExpectedResults
     /\ \A k \in workerRaised :
          /\ k \in DOMAIN results
          /\ origin[k] = "fallback"
          /\ results[k] = ComputeLocally(UnitOfKey(k)[1], UnitOfKey(k)[2],
                                         source[UnitOfKey(k)[1]])

C3_Witness ==
  /\ pc = "returned"
  /\ Cardinality(workerRaised) = 1
  /\ \A k \in workerRaised : k \in DOMAIN origin /\ origin[k] = "fallback"
  /\ \E k \in DOMAIN origin : origin[k] = "worker"
  /\ \E tf \in Range(Timeframes) : source[tf] # source[Timeframes[1]]

\* C4: the POOL -> SEQUENTIAL downgrade is one-way: once process_pool_available
\* is false it stays false, and no later step creates a pool or submits a task.
C4_DowngradeSticky ==
  [][~poolSupported =>
       /\ ~poolSupported'
       /\ pc' \notin {"create", "pool"}
       /\ futures' = {}
       /\ submitted' \subseteq submitted]_vars

C4_Witness ==
  /\ ~poolSupported
  /\ ~callStart.pool
  /\ calls >= 1
  /\ pc = "returned"
  /\ \E k \in DOMAIN origin : origin[k] = "sequential"

\* C5: the downgrade is taken only when creating or starting the pool fails;
\* a per-task error never changes process_pool_available and never sends the
\* already running dispatch back through all tasks.
C5_OnlyPoolStartDowngrades ==
  [][/\ (poolSupported /\ ~poolSupported') => pc = "create"
     /\ pc = "pool" => pc' # "seq"]_vars


\* C6: for the same timeframes, indicators, datasets and starting cache, and
\* deterministic compute units, a batch run ends the same way whether it
\* executes in SEQUENTIAL or in POOL mode: it returns, with the key set and
\* payloads and with the cache entries that are the one function of the
\* starting cache and the datasets given below (what the sequential loop
\* produces).
ExpectedKeys ==
  {k \in AllKeys : \/ HasEntry(callStart.cache.data, UnitOfKey(k), dataset)
                   \/ behaviour[UnitOfKey(k)] \in {"ok", "worker"}}

ExpectedStore ==
  LET old == callStart.cache.data
      new == {EntryKey(u, dataset) :
                u \in {v \in Units : /\ ComputeSignature(dataset[v[1]]) # NoSignature
                                     /\ ResultKey(v[1], v[2]) \in ExpectedKeys}}
  IN [ck \in (DOMAIN old) \cup new |->
        IF ck \in DOMAIN old THEN old[ck]
        ELSE Compute(ck[2], ck[3], dataset[ck[2]])]

C6_ModeIndependent ==
  (\/ pc = "returned"
   \/ pc = "raised" /\ exc # "load")
  => /\ pc = "returned"
     /\ results = [k \in ExpectedKeys |->
                     ExpectedPayload(callStart.cache.data, dataset, UnitOfKey(k))]
     /\ cache.data = ExpectedStore

\* C7: a second explore_all on the same instance with unchanged datasets
\* (fingerprints present) returns a map equal to the first call's map and
\* performs no computation (nothing submitted, no local compute) and no store.
C7_SecondCallIdempotent ==
  (/\ pc = "returned"
   /\ prev.status = "returned"
   /\ prev.source = callStart.source
   /\ FingerprintsPresent(callStart.source))
  => /\ results = prev.results
     /\ submitted = {}
     /\ localRuns = EmptyMap
     /\ cache.stats.stores = callStart.cache.stats.stores

\* C8: from an empty cache with every fingerprint present, the first
\* explore_all leaves {hits: 0, misses: N*M, stores: N*M}; an identical
\* second call adds exactly {hits: N*M, misses: 0, stores: 0}.
C8_ScenarioStats ==
  /\ (/\ pc = "returned"
      /\ calls = 0
      /\ callStart.cache = [data |-> EmptyMap, stats |-> ZeroStats]
      /\ FingerprintsPresent(callStart.source))
     => cache.stats = [hits |-> 0, misses |-> Total, stores |-> Total]
  /\ (/\ pc = "returned"
      /\ calls = 1
      /\ prev.status = "returned"
      /\ prev.source = callStart.source
      /\ FingerprintsPresent(callStart.source))
     => cache.stats = [hits |-> callStart.cache.stats.hits + Total,
                       misses |-> callStart.cache.stats.misses,
                       stores |-> callStart.cache.stats.stores]

\* C9: a lookup hits only an entry stored under the identical (symbol,
\* timeframe, indicator, fingerprint) key: a unit is served from the cache
\* exactly when an entry for the current dataset's fingerprint existed when
\* the call began; every other unit is recomputed, no returned payload comes
\* from a dataset that fingerprints differently from the current one, and
\* the entries stored under other fingerprints stay in the cache unchanged.
ServedFromCache(k) == k \in DOMAIN origin /\ origin[k] = "cache"

C9_HitOnlyIdenticalKey ==
  /\ PostBuild =>
       \A u \in Units :
         LET k == ResultKey(u[1], u[2]) IN
           /\ ServedFromCache(k) <=> HasEntry(callStart.cache.data, u, dataset)
           /\ ServedFromCache(k) =>
                results[k] = callStart.cache.data[EntryKey(u, dataset)]
  /\ pc = "returned" =>
       \A u \in Units :
         LET k == ResultKey(u[1], u[2]) IN
           /\ ~ServedFromCache(k) => (k \in submitted \/ k \in DOMAIN localRuns)
           /\ k \in DOMAIN results =>
                /\ results[k].timeframe = u[1]
                /\ results[k].factor = u[2]
                /\ ComputeSignature(results[k].src) = ComputeSignature(source[u[1]])
  /\ \A ck \in DOMAIN callStart.cache.data :
       /\ ck \in DOMAIN cache.data
       /\ cache.data[ck] = callStart.cache.data[ck]

C9_Witness ==
  /\ pc = "returned"
  /\ prev.status = "returned"
  /\ \E tf \in Range(Timeframes) :
       /\ ComputeSignature(source[tf]) # NoSignature
       /\ ComputeSignature(prev.source[tf]) # ComputeSignature(source[tf])
       /\ \A f \in Range(FactorNames) :
            /\ <<Symbol, tf, f, ComputeSignature(prev.source[tf])>> \in DOMAIN cache.data
            /\ ~ServedFromCache(ResultKey(tf, f))
            /\ ResultKey(tf, f) \in DOMAIN results
            /\ results[ResultKey(tf, f)].src = source[tf]
  /\ \E k \in AllKeys : ServedFromCache(k)

\* C10: with an absent fingerprint nothing is ever cached: a get is a miss
\* that raises misses by exactly one, a set changes neither the entries nor
\* any counter, and explore_all still returns a result for every such unit,
\* on every call, with stores and hits unchanged.
AbsentUnits ==
  {u \in Units : u[1] \in DOMAIN dataset
                 /\ ComputeSignature(dataset[u[1]]) = NoSignature}

C10_AbsentFingerprintNeverCached ==
  /\ NoKey \notin DOMAIN cache.data
  /\ \A u \in Units :
       LET got == CacheGet(cache, Symbol, u[1], u[2], NoSignature) IN
         /\ ~got.hit
         /\ got.cache = [cache EXCEPT !.stats.misses = @ + 1]
         /\ CacheSet(cache, Symbol, u[1], u[2], NoSignature,
                     Compute(u[1], u[2], NoData)) = cache
  /\ \A u \in AbsentUnits : ~ServedFromCache(ResultKey(u[1], u[2]))
  /\ pc = "returned" =>
       \A u \in AbsentUnits : ResultKey(u[1], u[2]) \in DOMAIN results
  /\ (pc = "returned" /\ AbsentUnits = Units) =>
       /\ cache.data = callStart.cache.data
       /\ cache.stats = [callStart.cache.stats EXCEPT !.misses = @ + Total]

\* C13: within one explore_all call the logged progress values are strictly
\* increasing, none logged twice, and the last one is the value the
\* reporter remembers, across the build phase (cache hits), the POOL
\* dispatch and a SEQUENTIAL fallback.
C13_ProgressStrictlyIncreasing ==
  /\ \A i \in 1 .. (Len(progress.log) - 1) : progress.log[i] < progress.log[i + 1]
  /\ progress.log # <<>> => progress.logged = progress.log[Len(progress.log)]

C13_Witness ==
  /\ pc = "returned"
  /\ callStart.pool
  /\ ~poolSupported
  /\ workerRaised # {}
  /\ \E k \in DOMAIN origin : origin[k] = "sequential"
  /\ Len(progress.log) > Cardinality(DOMAIN results)

\* C20: the progress counter of a batch call stays within 0 .. total in
\* every state of the call and equals total = |timeframes| x |indicators|
\* when the call returns.
C20_CompletedReachesTotal ==
  /\ pc # "idle" => (0 <= completed /\ completed <= Total)
  /\ pc = "returned" => completed = Total

\* C14: if loading the dataset of a configured timeframe fails, the batch
\* call raises that error and returns no map (no partial results); on that
\* path no task is submitted, no unit is computed, no cache entry is stored
\* and process_pool_available is unchanged.
C14_LoadFailureAbortsCall ==
  /\ PostBuild => \A tf \in Range(Timeframes) : callStart.source[tf] # LoadError
  /\ (pc = "raised" /\ exc = "load") =>
       /\ submitted = {}
       /\ futures = {}
       /\ workerRaised = {}
       /\ localRuns = EmptyMap
       /\ cache.data = callStart.cache.data
       /\ cache.stats.stores = callStart.cache.stats.stores
       /\ poolSupported = callStart.pool
  /\ prev.status = "raised" => prev.results = EmptyMap

C14_Witness ==
  /\ pc = "raised"
  /\ exc = "load"
  /\ idx = Len(Timeframes)
  /\ results # EmptyMap
  /\ cache.stats.hits > callStart.cache.stats.hits

\* C15: explore_single_factor bypasses the cache and the dispatcher: a step
\* of it leaves the cache entries, the counters, the logged progress and
\* process_pool_available unchanged, submits nothing to a pool, and calls
\* the DataLoader exactly when no dataset is supplied.
C15_ExploreOneBypasses ==
  [][(pc = "idle" /\ pc' = "idle" /\ source' = source) =>
       /\ cache' = cache
       /\ progress' = progress
       /\ poolSupported' = poolSupported
       /\ submitted' = submitted
       /\ futures' = futures
       /\ loaderCalls' = loaderCalls
       /\ oneOut'.loaded <=> ~oneOut'.supplied]_vars

C15_Witness ==
  /\ oneOut.supplied
  /\ ~oneOut.loaded
  /\ calls >= 1
  /\ cache.data # EmptyMap
  /\ ~poolSupported

\* C16: explore_all_factors_async changes only the caller's concurrency
\* model: whatever batch_size is passed, a call through it returns the map,
\* leaves the cache entries and the hit and miss counters, and makes the
\* mode transition that explore_all_factors does from the same starting
\* state (all given below as functions of that state and the datasets).
HitKeys ==
  {k \in AllKeys : HasEntry(callStart.cache.data, UnitOfKey(k), dataset)}

C16_AsyncSameAsSync ==
  pc = "returned" =>
    /\ results = [k \in ExpectedKeys |->
                    ExpectedPayload(callStart.cache.data, dataset, UnitOfKey(k))]
    /\ cache.data = ExpectedStore
    /\ cache.stats.hits = callStart.cache.stats.hits + Cardinality(HitKeys)
    /\ cache.stats.misses =
         callStart.cache.stats.misses + Total - Cardinality(HitKeys)
    /\ cache.stats.stores >= callStart.cache.stats.stores
    /\ ~callStart.pool => ~poolSupported

C16_Witness ==
  /\ pc = "returned"
  /\ calls >= 1
  /\ HitKeys # {}
  /\ \E k \in DOMAIN origin : origin[k] = "cache"
  /\ cache.stats.hits > 0

\* C19: within one batch call the loader's load and compute_signature are
\* each invoked exactly once per configured timeframe, never again during
\* dispatch (local recomputation, sequential re-execution), and every unit
\* of a timeframe uses that one dataset and that one fingerprint.
C19_OneLoadPerTimeframe ==
  /\ \A tf \in Range(Timeframes) :
       /\ loaderCalls.load[tf] <= 1
       /\ loaderCalls.sign[tf] <= loaderCalls.load[tf]
  /\ PostBuild =>
       /\ \A tf \in Range(Timeframes) :
            loaderCalls.load[tf] = 1 /\ loaderCalls.sign[tf] = 1
       /\ \A i \in DOMAIN tasks :
            /\ tasks[i].data = dataset[tasks[i].timeframe]
            /\ tasks[i].signature = ComputeSignature(dataset[tasks[i].timeframe])
       /\ \A k \in DOMAIN results :
            origin[k] # "cache" => results[k].src = dataset[UnitOfKey(k)[1]]

C19_Witness ==
  /\ pc = "returned"
  /\ \E k \in DOMAIN origin : origin[k] = "fallback"
  /\ \A tf \in Range(Timeframes) : loaderCalls.load[tf] = 1
  /\ \E tf \in Range(Timeframes) : ComputeSignature(dataset[tf]) # NoSignature

\* C21: for every unit the cache write happens only after the unit has a
\* successfully computed result (for a unit that failed in a worker: only
\* after its synchronous fallback succeeded) and strictly before that unit's
\* progress advancement; a unit with no successful result is never written
\* to the cache and never counted in stores.
CacheWritten == cache'.data # cache.data \/ cache'.stats.stores # cache.stats.stores

Succeeds(u) == behaviour[u] \in {"ok", "worker"}

C21_WriteAfterComputeBeforeProgress ==
  /\ [][CacheWritten =>
          \E i \in DOMAIN tasks :
            LET task == tasks[i]
                k == TaskKey(task)
                result == Compute(task.timeframe, task.factor, dataset[task.timeframe])
            IN /\ Succeeds(<<task.timeframe, task.factor>>)
               /\ k \in DOMAIN results' /\ results'[k] = result
               /\ origin'[k] = "fallback" => k \in workerRaised'
               /\ cache' = CacheSet(cache, Symbol, task.timeframe, task.factor,
                                    task.signature, result)
               /\ completed' = completed /\ progress' = progress
               /\ pc' \in {"pool_advance", "seq_advance"}]_vars
  /\ [][(pc \in {"pool", "seq", "pool_advance", "seq_advance"}
          /\ completed' # completed /\ pc' # "idle")
         => /\ pc \in {"pool_advance", "seq_advance"}
            /\ completed' = completed + 1
            /\ cache' = cache]_vars
  /\ [](pc \in {"pool_advance", "seq_advance"} =>
          \A k \in DOMAIN origin :
            (origin[k] # "cache"
             /\ ComputeSignature(dataset[UnitOfKey(k)[1]]) # NoSignature)
            => /\ EntryKey(UnitOfKey(k), dataset) \in DOMAIN cache.data
               /\ cache.data[EntryKey(UnitOfKey(k), dataset)] = results[k])
  /\ [](\A u \in Units :
          ~Succeeds(u) =>
            \A key \in DOMAIN cache.data : ~(key[2] = u[1] /\ key[3] = u[2]))

C21_Witness ==
  /\ pc = "pool_advance"
  /\ \E k \in DOMAIN origin :
       /\ origin[k] = "fallback"
       /\ EntryKey(UnitOfKey(k), dataset) \in DOMAIN cache.data
       /\ cache.data[EntryKey(UnitOfKey(k), dataset)] = results[k]
  /\ completed < Cardinality(DOMAIN results)

\* C22: within one batch call every cache lookup (get) happens in the build
\* phase, strictly before the first task is submitted or computed; during
\* dispatch the cache is only written (set), only by the orchestrating
\* process, and a worker task never reads or writes the cache: what a worker
\* delivers is computed from the arguments of its task alone.
Lookups(c) == c.stats.hits + c.stats.misses

C22_LookupsOnlyInBuild ==
  [][/\ Lookups(cache') # Lookups(cache)
          => /\ pc = "build"
             /\ submitted = {} /\ localRuns = EmptyMap
             /\ cache'.data = cache.data
             /\ cache'.stats.stores = cache.stats.stores
     /\ CacheWritten
          => /\ pc \in {"pool", "seq"}
             /\ \E i \in DOMAIN tasks :
                  /\ TaskKey(tasks[i]) \in DOMAIN results'
                  /\ cache' = CacheSet(cache, Symbol, tasks[i].timeframe,
                                       tasks[i].factor, tasks[i].signature,
                                       results'[TaskKey(tasks[i])])
     /\ pc = "create" => cache' = cache
     /\ \A i \in DOMAIN tasks :
          (/\ pc = "pool" /\ i \in futures /\ i \notin futures'
           /\ TaskKey(tasks[i]) \in DOMAIN origin'
           /\ origin'[TaskKey(tasks[i])] = "worker")
          => results'[TaskKey(tasks[i])] =
               Compute(tasks[i].timeframe, tasks[i].factor, tasks[i].data)]_vars

C22_Witness ==
  /\ pc = "pool"
  /\ cache.stats.hits > callStart.cache.stats.hits
  /\ cache.stats.misses > callStart.cache.stats.misses
  /\ cache.stats.stores > callStart.cache.stats.stores
  /\ \E k \in DOMAIN origin : origin[k] = "worker"

\* C23: a batch call is a synchronous barrier: provided every submitted
\* worker task eventually resolves, explore_all eventually returns or raises,
\* and at that moment no task it submitted is still pending or running, also
\* on the path where it falls back to SEQUENTIAL after a pool failure.
C23_SynchronousBarrier ==
  /\ (pc = "build") ~> (pc \in {"returned", "raised"})
  /\ [](pc \in {"returned", "raised"} => futures = {})

C23_Witness ==
  /\ pc = "returned"
  /\ callStart.pool /\ ~poolSupported
  /\ workerRaised # {}
  /\ Cardinality(submitted) = Len(tasks)
  /\ Len(tasks) > 1

\* ------------------------------------------------ memory observation
\* memory_limit_mb as the constructor can receive it: None (0) or a limit.
MemoryLimits == {0, 1}

MemoryInit ==
  \E memory_limit_mb \in MemoryLimits :
    Start(Constructed(NoInstances, "first", "given_first"), PlainLoader,
          memory_limit_mb)

\* The calling thread runs a call to its end and every submitted future
\* resolves (as in LiveSpec); the explorer may have a memory limit.
MemorySpec ==
  /\ MemoryInit
  /\ [][LiveNext]_vars
  /\ WF_vars(BuildTimeframe)
  /\ WF_vars(BuildDone)
  /\ WF_vars(PoolStart)
  /\ \A i \in 1 .. Total : WF_vars(Resolve(i))
  /\ WF_vars(PoolDone)
  /\ WF_vars(SeqStep)
  /\ WF_vars(SeqDone)

\* units of the running call that were computed and merged (not cache hits)
Resolved == {k \in DOMAIN origin : origin[k] # "cache"}

\* C24: with a memory limit configured, memory is sampled once after every
\* unit resolution, in SEQUENTIAL mode as in POOL mode: at every point of a
\* call between two units, and at its return, there are as many samples as
\* units resolved by this call.
C24_SampledAfterEveryResolution ==
  (memory.limit > 0 /\ pc \in {"pool", "seq"})
    => memory.samples = Cardinality(Resolved)

PendingKeys == {TaskKey(tasks[i]) : i \in DOMAIN tasks}

\* C25: memory pressure is advisory only.  An iteration of the pool loop
\* that logs the memory warning has exactly the effect of the iteration
\* without it: one future leaves the pending set, its result is merged,
\* written and counted, and the mode, the limit and the task list are
\* untouched.  Whenever a warning was logged every pending unit had been
\* submitted, the loop goes on to its end, and a return in POOL mode has
\* every pending unit in the result map.
C25_MemoryPressureAdvisory ==
  /\ [][memory'.warnings > memory.warnings =>
         \E i \in futures :
           /\ futures' = futures \ {i}
           /\ \/ Merge(tasks[i], Compute(tasks[i].timeframe, tasks[i].factor,
                                         tasks[i].data), "worker")
              \/ Merge(tasks[i], FallbackResult(tasks[i], dataset), "fallback")
           /\ memory'.limit = memory.limit
           /\ UNCHANGED <<poolSupported, pc, idx, tasks, dataset, exc,
                          submitted>>]_vars
  /\ [](memory.warnings > 0 => submitted = PendingKeys)
  /\ []((pc = "returned" /\ memory.warnings > 0 /\ poolSupported)
          => PendingKeys \subseteq DOMAIN results)
  /\ ((pc = "pool" /\ memory.warnings > 0) ~> (pc \in {"returned", "raised"}))

\* A call in POOL mode returned after the warning was logged more than once.
C25_Witness ==
  /\ pc = "returned"
  /\ poolSupported
  /\ memory.warnings > 1
  /\ PendingKeys \subseteq DOMAIN results
  /\ Cardinality(PendingKeys) > 1

\* The running call began in POOL mode and met the pool failure: the
\* warning was logged and the mode dropped to SEQUENTIAL.
MetPoolFailure == pc # "idle" /\ callStart.pool /\ ~poolSupported

\* C26: over the lifetime of one instance the pool failure is caught and
\* the warning logged at most once: once the mode is SEQUENTIAL it stays
\* so and no later step attempts to create a pool (the warning is logged
\* only on the step that drops the mode); and the call that met the failure
\* returns, with a full result map.
C26_PoolFailureCaughtOnce ==
  /\ [][~poolSupported =>
         (~poolSupported' /\ pc' \notin {"create", "pool"})]_vars
  /\ [](MetPoolFailure => pc # "raised")
  /\ []((MetPoolFailure /\ pc = "returned") => DOMAIN results = AllKeys)

\* Units whose lookup in the build phase missed: no entry under the
\* fingerprint of the loaded dataset when the call began.
MissedKeys ==
  {k \in AllKeys : ~HasEntry(callStart.cache.data, UnitOfKey(k), dataset)}

CacheServed == {k \in DOMAIN origin : origin[k] = "cache"}

\* C27: after the build phase the task list holds exactly the units whose
\* lookup missed, one task per unit.  A unit served from the cache has the
\* cached payload in the result map, is no task, and is never submitted to
\* a worker or computed in the parent.  Only tasks are ever submitted or
\* computed, and a call with no task never creates a pool, runs no loop
\* and leaves is_pool_available as it was.
C27_DispatchExactlyMisses ==
  /\ PostBuild =>
       /\ PendingKeys = MissedKeys
       /\ Len(tasks) = Cardinality(MissedKeys)
       /\ CacheServed = AllKeys \ MissedKeys
  /\ \A k \in CacheServed :
       /\ k \in DOMAIN results
       /\ results[k] = callStart.cache.data[EntryKey(UnitOfKey(k), dataset)]
       /\ k \notin PendingKeys
       /\ k \notin submitted
       /\ k \notin DOMAIN localRuns
       /\ k \notin workerRaised
  /\ submitted \subseteq PendingKeys
  /\ DOMAIN localRuns \subseteq PendingKeys
  /\ (pc # "idle" /\ idx > Len(Timeframes) /\ tasks = <<>>) =>
       /\ pc \in {"build", "returned"}
       /\ poolSupported = callStart.pool
       /\ submitted = {}
       /\ futures = {}
       /\ localRuns = EmptyMap
       /\ cache.data = callStart.cache.data

\* A call in POOL mode returned with some units served from the cache and
\* the others, whose timeframe had changed, submitted.
C27_Witness ==
  /\ pc = "returned"
  /\ poolSupported
  /\ CacheServed # {}
  /\ MissedKeys # {}
  /\ submitted = MissedKeys
  /\ DOMAIN results = AllKeys

\* C28: within one batch call each pending unit is merged and written at
\* most once: every iteration that merges a result adds a key the map did
\* not have, the parent never computes a unit whose result is already in
\* the map, and the call raises stores by at most the number of pending
\* units, also after a switch from POOL to SEQUENTIAL.
C28_MergedAtMostOnce ==
  /\ [][(pc \in {"pool", "seq"} /\ completed' > completed) =>
         Cardinality(DOMAIN results') > Cardinality(DOMAIN results)]_vars
  /\ [][(pc \in {"pool", "seq"}) =>
         (\A k \in DOMAIN localRuns' :
            (k \notin DOMAIN localRuns \/ localRuns'[k] > localRuns[k])
              => (k \notin DOMAIN results))]_vars
  /\ [](pc \in {"pool", "seq", "returned"} =>
          cache.stats.stores - callStart.cache.stats.stores <= Len(tasks))

\* ------------------------------------------------ the caller's rows
\* row["exploration_date"] = timestamp on one payload dict
Stamp(row, timestamp) ==
  [symbol |-> row.symbol, timeframe |-> row.timeframe, factor |-> row.factor,
   src |-> row.src, exploration_date |-> timestamp]

\* The cache entries that are the very dict objects of the returned map:
\* results[key] = result and factor_cache.set(..., result) store one object,
\* and a hit places the cached object itself in the map.
SharedEntries(returned, ds) ==
  {EntryKey(UnitOfKey(k), ds) : k \in DOMAIN returned} \cap DOMAIN cache.data

\* DiscoveryOrchestrator.run_async after the batch call returned:
\*   for row in phase1_results.values(): row["exploration_date"] = timestamp
\* The clock is modelled by the number of calls made so far.
OverwriteExplorationDate ==
  /\ pc = "idle"
  /\ prev.status = "returned"
  /\ \E k \in DOMAIN prev.results :
       prev.results[k] # Stamp(prev.results[k], calls)
  /\ prev' = [prev EXCEPT
                !.results = [k \in DOMAIN @ |-> Stamp(@[k], calls)]]
  /\ cache' = [cache EXCEPT
                 !.data = [ck \in DOMAIN @ |->
                             IF ck \in SharedEntries(prev.results, prev.source)
                               THEN Stamp(@[ck], calls) ELSE @[ck]]]
  /\ UNCHANGED <<envVars, auxVars, memory, loader, poolSupported, progress, pc,
                 frameVars, exc, histVars, callStart, calls, oneOut,
                 loaderCalls>>

OrchestratorNext ==
  \/ BeginCall
  \/ BuildTimeframe
  \/ BuildDone
  \/ PoolStart
  \/ \E i \in DOMAIN tasks : Resolve(i)
  \/ PoolDone
  \/ SeqStep
  \/ SeqDone
  \/ Finish
  \/ \E timeframe \in Volatile, value \in SourceDomain :
       DataChange(timeframe, value)
  \/ OverwriteExplorationDate

OrchestratorSpec == Init /\ [][OrchestratorNext]_vars

\* C29: a payload held in the cache is not changed by what a caller does to
\* a returned map: whatever the caller did to the rows of earlier maps, a
\* unit served from the cache has in the result map the payload as it was
\* originally computed, from a dataset with the fingerprint of the lookup.
C29_CachedPayloadImmune ==
  \A k \in CacheServed :
    /\ results[k] = Compute(UnitOfKey(k)[1], UnitOfKey(k)[2], results[k].src)
    /\ ComputeSignature(results[k].src)
         = ComputeSignature(dataset[UnitOfKey(k)[1]])

\* ------------------------------------------------ two overlapping calls
\* explore_all_factors_async: run_in_executor(None, self.explore_all_factors).
\* Two such calls run in two threads of the default executor on the same
\* instance: each has its own locals, both use self.factor_cache,
\* self._process_pool_supported and self._progress_logged.  The scheduler
\* passes control from the running thread to the other one between any two
\* steps.
Switch ==
  /\ parked' = [pc |-> pc, idx |-> idx, tasks |-> tasks, dataset |-> dataset,
                results |-> results, completed |-> completed,
                futures |-> futures, exc |-> exc, origin |-> origin,
                workerRaised |-> workerRaised, submitted |-> submitted,
                localRuns |-> localRuns, callStart |-> callStart,
                loaderCalls |-> loaderCalls]
  /\ pc' = parked.pc
  /\ idx' = parked.idx
  /\ tasks' = parked.tasks
  /\ dataset' = parked.dataset
  /\ results' = parked.results
  /\ completed' = parked.completed
  /\ futures' = parked.futures
  /\ exc' = parked.exc
  /\ origin' = parked.origin
  /\ workerRaised' = parked.workerRaised
  /\ submitted' = parked.submitted
  /\ localRuns' = parked.localRuns
  /\ callStart' = parked.callStart
  /\ loaderCalls' = parked.loaderCalls
  /\ UNCHANGED <<envVars, threads, cacheLog, instances, memory, loader, cache,
                 poolSupported, progress, prev, calls, oneOut>>

\* Two awaited explore_all_factors_async calls: at most MaxCalls calls are
\* begun in all, counting the one running in the other thread.
BeginOverlapping(batch_size) ==
  /\ calls + (IF parked.pc = "idle" THEN 0 ELSE 1) < MaxCalls
  /\ BeginAsync(batch_size)

OverlapNext ==
  \/ \E batch_size \in BatchSizes : BeginOverlapping(batch_size)
  \/ BuildTimeframe
  \/ BuildDone
  \/ PoolStart
  \/ \E i \in DOMAIN tasks : Resolve(i)
  \/ PoolDone
  \/ SeqStep
  \/ SeqDone
  \/ Finish
  \/ Switch

\* The unit that may misbehave is the last one of the grid.
OverlapInit ==
  /\ Init
  /\ \A u \in Units :
       u # <<Timeframes[Len(Timeframes)], FactorNames[Len(FactorNames)]>>
         => behaviour[u] = "ok"

OverlapSpec == OverlapInit /\ [][OverlapNext]_vars

\* The map of a call run alone on the stored data, every unit computed.
AloneResults ==
  [k \in AllKeys |->
     Compute(UnitOfKey(k)[1], UnitOfKey(k)[2], source[UnitOfKey(k)[1]])]

\* C30: when two batch calls on one instance overlap, under every
\* interleaving each call returns (it does not raise) the complete map of
\* a call run alone, and once both have finished the cache holds exactly
\* one entry per (timeframe, indicator, fingerprint) unit.
C30_OverlappingCallsComplete ==
  /\ pc # "raised"
  /\ pc = "returned" => results = AloneResults
  /\ (pc = "idle" /\ parked.pc = "idle" /\ calls > 1) =>
       DOMAIN cache.data = {EntryKey(u, source) : u \in Units}

\* C11: each of the counters hits, misses and stores never decreases in a
\* step other than clear(), for any sequence and any interleaving of get
\* and set calls; clear() empties the store and sets all three counters to
\* zero.
C11_CountersMonotone ==
  [][/\ cacheLog'.gen = cacheLog.gen =>
          /\ cache'.stats.hits >= cache.stats.hits
          /\ cache'.stats.misses >= cache.stats.misses
          /\ cache'.stats.stores >= cache.stats.stores
     /\ cacheLog'.gen # cacheLog.gen => cache'.stats = ZeroStats
     /\ (\E t \in Threads : threads[t].at = "idle" /\ threads'[t].at = "reset")
          => cache'.data = EmptyMap]_vars

\* C12: the cache map and its counters are guarded by the mutex, so under
\* any interleaving of concurrent get and set calls no update is lost: once
\* all calls have returned, hits + misses equals the number of get calls
\* and stores equals the number of set calls with a present fingerprint.
C12_NoLostUpdate ==
  (/\ \A t \in Threads : threads[t].at = "idle"
   /\ cacheLog.gen = 0)
  => /\ cache.stats.hits + cache.stats.misses = cacheLog.gets
     /\ cache.stats.stores = cacheLog.sets

\* C17: two explorers constructed without an explicit cache do not share
\* entries or counters, so a batch run on one produces no hit, miss or store
\* visible in the other's cache_stats; a cache is shared only when the same
\* instance is passed explicitly.
C17_DefaultCachesNotShared ==
  \A e \in Explorers \ {"first"} :
    instances.ref[e] # NoCache =>
      /\ (instances.arg[e] = NoCache /\ instances.arg["first"] = NoCache)
           => CacheOf(e) = [data |-> EmptyMap, stats |-> ZeroStats]
      /\ instances.ref[e] = instances.ref["first"]
           => /\ instances.arg[e] # NoCache
              /\ instances.arg[e] = instances.arg["first"]

\* C18: when explore_all runs with an OptimizedDataLoader that has
\* preloading enabled, every timeframe's dataset is preloaded before the
\* build phase loads it: after the call preload_hits equals the number of
\* timeframes, preload_misses is 0 and the data provider has been called
\* exactly once per timeframe.
C18_PreloadedBeforeBuild ==
  (/\ pc = "returned"
   /\ calls = 0
   /\ loader.kind = "optimized"
   /\ loader.preload)
  => /\ loader.stats.preload_hits = Len(Timeframes)
     /\ loader.stats.preload_misses = 0
     /\ \A tf \in Range(Timeframes) : loader.provided[tf] = 1

====
